---- MODULE Spec2Model ----
(***************************************************************************)
(* Model of the embedded shell of dimutils: the exec handler that chooses  *)
(* between a builtin and the process executor (pkg/shell/builtins.go) and  *)
(* the four input modes of shell.Run (pkg/shell, package shell).           *)
(***************************************************************************)
EXTENDS Integers, Sequences, FiniteSets, TLC

(* ------------------------------------------------------------------ *)
(* Bounds                                                              *)
(* ------------------------------------------------------------------ *)
\* longest argument vector handed to the exec handler on its own
MaxArgv == 2
\* most lines read from the terminal in one interactive session
MaxLines == 3

(* ------------------------------------------------------------------ *)
(* Values                                                              *)
(* ------------------------------------------------------------------ *)
\* error values: nil, an ordinary error with a message, interp.ExitStatus
Nil == [kind |-> "nil", msg |-> "", status |-> 0]
Err(m) == [kind |-> "error", msg |-> m, status |-> 0]
NewExitStatus(n) == [kind |-> "exitStatus", msg |-> "", status |-> n % 256]

\* interp.IsExitStatus: the status and whether err is an exit status
IsExitStatus(err) == err.kind = "exitStatus"

\* builtins maps command names to their implementations
builtins ==
  [n \in {"gitaskop", "eventdiff", "unexpect", "serve", "ebcdic",
          "cbxxml2regex", "regex2json", "tandum", "mkgchat", "togchat",
          "jq", "yq", "kubectl", "databricks", "make"} |->
     CASE n = "gitaskop" -> "runGitaskop"
       [] n = "eventdiff" -> "runEventdiff"
       [] n = "unexpect" -> "runUnexpect"
       [] n = "serve" -> "runServe"
       [] n = "ebcdic" -> "runEbcdic"
       [] n = "cbxxml2regex" -> "runCbxxml2regex"
       [] n = "regex2json" -> "runRegex2json"
       [] n = "tandum" -> "runTandum"
       [] n = "mkgchat" -> "runMkgchat"
       [] n = "togchat" -> "runTogchat"
       [] n = "jq" -> "runJq"
       [] n = "yq" -> "runYq"
       [] n = "kubectl" -> "runKubectl"
       [] n = "databricks" -> "runDatabricks"
       [] n = "make" -> "runMake"]

\* the registry as the process holds it: the package-level map builtins,
\* which starts as the literal above
VARIABLE registry

\* the name the registry lookup is made with
cmdName(args) == args[1]

\* exit codes cli.Run of gojq is taken to return
CliCodes == {0, 5}

\* runJq, from the exit code of cli.Run to what it returns
runJq(exitCode) ==
  IF exitCode # 0
    THEN Err("jq exited with code " \o ToString(exitCode))
    ELSE Nil

\* runMake, as the errors it can return for the targets a: the error of
\* makecmd.New wrapped, the error of BuildDefault as it is when no target is
\* given, the error of the first Build that fails wrapped with the name of
\* its target
runMake(a) ==
  {Nil, Err("error creating make command: no Makefile")}
  \cup (IF Len(a) = 0
          THEN {Err("failed")}
          ELSE {Err("error building target '" \o a[k] \o "': failed") :
                  k \in 1..Len(a)})

\* what the builtin implementation h can return when it is given the
\* arguments a: nil, or its own error
BuiltinOutcomes(h, a) ==
  IF h = "runJq" THEN {runJq(n) : n \in CliCodes}
  ELSE IF h = "runMake" THEN runMake(a)
  ELSE {Nil, Err("failed")}

\* statuses an external process is taken to exit with
ProcessStatuses == {0, 2}

\* the installed executable a command word leads to: a word with a
\* directory in it names that file and no other, a bare word is looked up
\* on the search path as it is written
Located(w) == IF w = "/usr/bin/jq" THEN "jq" ELSE w

\* interp.DefaultExecHandler: the executable is looked up on the search
\* path p; not found is exit status 127, otherwise the process's status
DefaultExecHandler(args, p) ==
  IF Located(args[1]) \in p
    THEN {IF n = 0 THEN Nil ELSE NewExitStatus(n) : n \in ProcessStatuses}
    ELSE {NewExitStatus(127)}

\* a call the exec handler makes: the callee, what it was given, what it
\* returned
Call(callee, c, a, r) == [callee |-> callee, ctx |-> c, args |-> a, ret |-> r]

\* createExecHandler that prefers an installed executable to a builtin
createExecHandler_PathFirst(c, args, p) ==
  IF Len(args) = 0
    THEN {[calls |-> <<>>, result |-> Nil]}
    ELSE IF cmdName(args) \in DOMAIN registry /\ cmdName(args) \notin p
      THEN {[calls |-> <<Call(registry[cmdName(args)], c, Tail(args), r)>>,
             result |-> r] : r \in BuiltinOutcomes(registry[cmdName(args)], Tail(args))}
      ELSE {[calls |-> <<Call("DefaultExecHandler", c, args, r)>>,
             result |-> r] : r \in DefaultExecHandler(args, p)}

\* createExecHandler without the guard for an empty argument vector: the
\* empty vector goes to the process executor, which finds no executable
createExecHandler_NoEmptyGuard(c, args, p) ==
  IF Len(args) = 0
    THEN {[calls |-> <<Call("DefaultExecHandler", c, args, NewExitStatus(127))>>,
           result |-> NewExitStatus(127)]}
    ELSE IF cmdName(args) \in DOMAIN registry
      THEN {[calls |-> <<Call(registry[cmdName(args)], c, Tail(args), r)>>,
             result |-> r] : r \in BuiltinOutcomes(registry[cmdName(args)], Tail(args))}
      ELSE {[calls |-> <<Call("DefaultExecHandler", c, args, r)>>,
             result |-> r] : r \in DefaultExecHandler(args, p)}

\* createExecHandler that strips the command name on the fallback too
createExecHandler_StripOnMiss(c, args, p) ==
  IF Len(args) = 0
    THEN {[calls |-> <<>>, result |-> Nil]}
    ELSE IF cmdName(args) \in DOMAIN registry
      THEN {[calls |-> <<Call(registry[cmdName(args)], c, Tail(args), r)>>,
             result |-> r] : r \in BuiltinOutcomes(registry[cmdName(args)], Tail(args))}
      ELSE {[calls |-> <<Call("DefaultExecHandler", c, Tail(args), r)>>,
             result |-> r] :
              r \in IF Len(args) > 1 THEN DefaultExecHandler(Tail(args), p)
                    ELSE {NewExitStatus(127)}}

\* createExecHandler that hands the builtin the whole argument vector and
\* turns its error into exit status 1
createExecHandler_KeepName(c, args, p) ==
  IF Len(args) = 0
    THEN {[calls |-> <<>>, result |-> Nil]}
    ELSE IF cmdName(args) \in DOMAIN registry
      THEN {[calls |-> <<Call(registry[cmdName(args)], c, args, r)>>,
             result |-> IF r = Nil THEN Nil ELSE NewExitStatus(1)] :
              r \in BuiltinOutcomes(registry[cmdName(args)], args)}
      ELSE {[calls |-> <<Call("DefaultExecHandler", c, args, r)>>,
             result |-> r] : r \in DefaultExecHandler(args, p)}

\* a command word without its directory and in lower case
Fold(w) == IF w \in {"JQ", "/usr/bin/jq", "./jq"} THEN "jq" ELSE w

\* createExecHandler that looks the command word up by its folded name
createExecHandler_FoldsName(c, args, p) ==
  IF Len(args) = 0
    THEN {[calls |-> <<>>, result |-> Nil]}
    ELSE IF Fold(cmdName(args)) \in DOMAIN registry
      THEN {[calls |-> <<Call(registry[Fold(cmdName(args))], c, Tail(args), r)>>,
             result |-> r] :
              r \in BuiltinOutcomes(registry[Fold(cmdName(args))], Tail(args))}
      ELSE {[calls |-> <<Call("DefaultExecHandler", c, args, r)>>,
             result |-> r] : r \in DefaultExecHandler(args, p)}

\* the function createExecHandler returns, as the set of its possible
\* executions: the calls made and the error returned
createExecHandler(c, args, p) ==
  IF Len(args) = 0
    THEN {[calls |-> <<>>, result |-> Nil]}
    ELSE IF cmdName(args) \in DOMAIN registry
      THEN {[calls |-> <<Call(registry[cmdName(args)], c, Tail(args), r)>>,
             result |-> r] : r \in BuiltinOutcomes(registry[cmdName(args)], Tail(args))}
      ELSE {[calls |-> <<Call("DefaultExecHandler", c, args, r)>>,
             result |-> r] : r \in DefaultExecHandler(args, p)}

(* ------------------------------------------------------------------ *)
(* Source text and the parser                                          *)
(* ------------------------------------------------------------------ *)
\* one line of shell source: a block opener, a block closer, a line that
\* is a syntax error, the exit builtin of the interpreter, or a simple
\* command with its argument vector
Line(k, a, n) == [kind |-> k, argv |-> a, status |-> n]
Open == Line("open", <<>>, 0)
Close == Line("close", <<>>, 0)
Bad == Line("bad", <<>>, 0)
Exit(n) == Line("exit", <<>>, n)
Cmd(a) == Line("cmd", a, 0)
\* a pipeline of two simple commands, written as in the source: the argument
\* vector of the left side, the word "|", the argument vector of the right
Pipe(a, b) == Line("pipe", a \o <<"|">> \o b, 0)

\* the lines a session is fed
Lines ==
  {Open, Close, Bad, Exit(0), Exit(7),
   Cmd(<<"jq", ".">>), Cmd(<<"ls", "-la">>), Cmd(<<"nosuch">>),
   Pipe(<<"ls", "-la">>, <<"jq", ".">>)}

\* texts of at most n lines
TextsUpTo(n) == UNION {[1..k -> Lines] : k \in 0..n}

\* number of blocks open after the first i lines of text
RECURSIVE Depth(_, _)
Depth(text, i) ==
  IF i = 0 THEN 0
  ELSE Depth(text, i - 1)
       + (IF text[i].kind = "open" THEN 1
          ELSE IF text[i].kind = "close" THEN -1 ELSE 0)

\* the text has a syntax error that no further line can repair
Invalid(text) ==
  \E i \in 1..Len(text) :
    \/ text[i].kind = "bad"
    \/ text[i].kind = "close" /\ Depth(text, i - 1) = 0
    \/ text[i].kind = "close" /\ i > 1 /\ text[i - 1].kind = "open"

\* the commands of a text in execution order
RECURSIVE Commands(_)
Commands(text) ==
  IF text = <<>> THEN <<>>
  ELSE IF Head(text).kind \in {"cmd", "exit", "pipe"}
    THEN <<Head(text)>> \o Commands(Tail(text))
    ELSE Commands(Tail(text))

\* parser.Parse together with syntax.IsIncomplete: "ok" with the program,
\* "incomplete" for an unfinished prefix, "invalid" for any other error
Parse(text) ==
  IF Invalid(text) THEN [class |-> "invalid", prog |-> <<>>]
  ELSE IF Depth(text, Len(text)) > 0 THEN [class |-> "incomplete", prog |-> <<>>]
  ELSE [class |-> "ok", prog |-> Commands(text)]

(* ------------------------------------------------------------------ *)
(* State                                                               *)
(* ------------------------------------------------------------------ *)
VARIABLES
  path,       \* names for which an external executable is on the search path
  dpc,        \* exec handler called on its own: "idle" or "done"
  dctx,       \* ... the context it was called with
  dargv,      \* ... the argument vector it was called with
  dcalls,     \* ... the calls it made
  dresult,    \* ... the error it returned
  doutput,    \* ... bytes the external process wrote, 0 without a process
  args,       \* arguments of shell.Run
  isTerminal, \* term.IsTerminal(stdin)
  pc,         \* where the session is
  mode,       \* the mode function entered, "none" before
  source,     \* the argument used as command string or script path
  ioErr,      \* error of scanner.Err, io.ReadAll or os.Open
  acquired,   \* the text a non-interactive mode got, as a one-element list
  parses,     \* texts handed to parser.Parse, in order
  fileOpen,   \* the script file is open
  scanned,      \* lines read from the terminal so far, in order
  src,        \* interactive line buffer (strings.Builder src)
  todo,       \* commands of the running program not yet executed
  rexit,      \* runner: exit status of the last command
  rerr,       \* runner: fatal error that halted it
  exited,     \* runner: the exit builtin was run
  inflight,   \* runner: the two sides of the pipeline being executed
  runErr,     \* what runner.Run returned
  runs,       \* texts handed to runner.Run, in order
  calls,      \* calls made by the exec handler during the session
  stdout,     \* prompts printed
  stderr,     \* messages written to the error stream
  ret,        \* what shell.Run returned
  exitCode,   \* exit code of the process, -1 while it runs
  osArgs,     \* os.Args, the argument vector of the process
  g,          \* goroutines calling the builtins that swap os.Args
  tool,       \* the subcommand the multicall binary was started with
  cliCode,    \* what cli.Run returned to jqCmd, -1 before
  mk          \* runMake called on its own: its inputs, position and result

dvars == <<dpc, dctx, dargv, dcalls, dresult, doutput>>
hvars == <<ioErr, acquired, parses>>
svars == <<args, isTerminal, pc, mode, source, hvars, fileOpen, scanned, src,
           todo, rexit, rerr, exited, inflight, runErr, runs, calls, stdout,
           stderr, ret, exitCode>>
tvars == <<tool, cliCode>>
ovars == <<osArgs, g, tvars, mk>>
vars == <<path, registry, dvars, svars, ovars>>

\* executables that may or may not be installed
Installable == {"jq", "ls"}

prompt == "dim > "
prompt2 == "> "

\* argument lists shell.Run is started with
ArgLists ==
  {<<>>, <<"-c">>, <<"-c", "text">>, <<"-c", "text", "x">>,
   <<"script.sh">>, <<"script.sh", "x">>, <<"x", "-c">>}

\* context runner.Run hands to the exec handler
ctxRun == "ctxRun"

SessionInit ==
  /\ args \in ArgLists
  /\ isTerminal \in BOOLEAN
  /\ pc = "start"
  /\ mode = "none"
  /\ source = ""
  /\ ioErr = Nil
  /\ acquired = <<>>
  /\ parses = <<>>
  /\ fileOpen = FALSE
  /\ scanned = <<>>
  /\ src = <<>>
  /\ todo = <<>>
  /\ rexit = 0
  /\ rerr = Nil
  /\ exited = FALSE
  /\ inflight = <<>>
  /\ runErr = Nil
  /\ runs = <<>>
  /\ calls = <<>>
  /\ stdout = <<>>
  /\ stderr = <<>>
  /\ ret = Nil
  /\ exitCode = -1

DispatchIdle ==
  /\ dpc = "idle"
  /\ dctx = ""
  /\ dargv = <<>>
  /\ dcalls = <<>>
  /\ dresult = Nil
  /\ doutput = 0

\* most calls of a builtin that swaps os.Args made by one goroutine
MaxCalls == 2

\* the goroutines the exec handler is called from: the runner's own and
\* the one it starts for the left side of a pipeline
Goroutines == {1, 2}

\* a goroutine that is in none of the builtins; what it kept of a call is
\* gone with the call's frame
NotCalled ==
  [pc |-> "idle", fn |-> "", args |-> <<>>, oldArgs |-> <<>>, entry |-> <<>>,
   alone |-> TRUE, result |-> Nil, n |-> 0]

\* rootCmd without the command for jq
Subcommands_NoJq ==
  {"apigen", "datagen", "gitaskop", "eventdiff", "unexpect", "serve",
   "ebcdic", "cbxxml2regex", "regex2json", "tandum", "mkgchat", "togchat",
   "yq", "kubectl", "databricks", "make", "shell", "config"}

\* the subcommands init adds to rootCmd, by the name each is used with
Subcommands ==
  {"apigen", "datagen", "gitaskop", "eventdiff", "unexpect", "serve",
   "ebcdic", "cbxxml2regex", "regex2json", "tandum", "mkgchat", "togchat",
   "jq", "yq", "kubectl", "databricks", "make", "shell", "config"}

\* the subcommands the binary is started with here
Tools == {"shell", "jq"}

\* runMake before it is called
MakeIdle ==
  [pc |-> "idle", args |-> <<>>, failing |-> {}, newErr |-> FALSE, i |-> 0,
   built |-> <<>>, result |-> Nil]

BuiltinIdle ==
  /\ tool \in Tools
  /\ cliCode = -1
  /\ osArgs = <<"dimutils", tool>> \o args
  /\ g = [i \in Goroutines |-> NotCalled]
  /\ mk = MakeIdle

Init ==
  /\ path \in SUBSET Installable
  /\ registry = builtins
  /\ DispatchIdle
  /\ SessionInit
  /\ BuiltinIdle

(* ------------------------------------------------------------------ *)
(* shell.Run and the four mode functions                               *)
(* ------------------------------------------------------------------ *)
\* SelectMode that takes any argument list starting with "-c" and holding
\* a second argument for a command string
SelectMode_DashCPrefix(a, tty) ==
  IF Len(a) = 0
    THEN IF tty THEN "Interactive" ELSE "PipedScript"
    ELSE IF Len(a) >= 2 /\ a[1] = "-c" THEN "CommandString" ELSE "FileScript"

\* the mode function Run calls for an argument list
SelectMode(a, tty) ==
  IF Len(a) = 0
    THEN IF tty THEN "Interactive" ELSE "PipedScript"
    ELSE IF Len(a) = 2 /\ a[1] = "-c" THEN "CommandString" ELSE "FileScript"

\* the argument the mode function is given
SelectSource(a, tty) ==
  IF Len(a) = 0 THEN ""
  ELSE IF Len(a) = 2 /\ a[1] = "-c" THEN a[2] ELSE a[1]

\* what interp.New returns to Run: the runner, or the error of os.Getwd it
\* meets when it looks for the directory of the runner
interpNew == {Nil, Err("could not get current dir")}

\* Run: build parser and runner and call the mode function, or return the
\* error of interp.New before any mode function is called
Run ==
  /\ pc = "start" /\ tool = "shell"
  /\ \E err \in interpNew :
       IF err # Nil
         THEN /\ ret' = Err("error creating shell interpreter: " \o err.msg)
              /\ pc' = "returned"
              /\ UNCHANGED <<mode, source>>
         ELSE /\ mode' = SelectMode(args, isTerminal)
              /\ source' = SelectSource(args, isTerminal)
              /\ pc' = "entered"
              /\ UNCHANGED ret
  /\ UNCHANGED <<path, registry, ovars, dvars, inflight, hvars, args, isTerminal, fileOpen, scanned, src, todo,
                 rexit, rerr, exited, runErr, runs, calls, stdout, stderr,
                 exitCode>>

\* runner.Run is entered with the program of a text
StartRun(text) ==
  /\ runs' = Append(runs, text)
  /\ todo' = Parse(text).prog
  /\ rerr' = Nil
  /\ exited' = FALSE
  /\ pc' = "running"

\* runInteractiveBegin that prints no prompt before the loop
runInteractiveBegin_NoPrompt ==
  /\ pc = "entered" /\ mode = "Interactive"
  /\ stdout' = stdout
  /\ pc' = "scan"
  /\ UNCHANGED <<path, registry, ovars, dvars, inflight, hvars, args, isTerminal, mode, source, fileOpen,
                 scanned, src, todo, rexit, rerr, exited, runErr, runs, calls,
                 stderr, ret, exitCode>>

\* runInteractive up to the loop: the first prompt
runInteractiveBegin ==
  /\ pc = "entered" /\ mode = "Interactive"
  /\ stdout' = Append(stdout, prompt)
  /\ pc' = "scan"
  /\ UNCHANGED <<path, registry, ovars, dvars, inflight, hvars, args, isTerminal, mode, source, fileOpen,
                 scanned, src, todo, rexit, rerr, exited, runErr, runs, calls,
                 stderr, ret, exitCode>>

\* runInteractiveLine that resets the buffer on an incomplete parse too
runInteractiveLine_DropsPrefix(line) ==
  /\ pc = "scan" /\ Len(scanned) < MaxLines
  /\ scanned' = Append(scanned, line)
  /\ LET text == Append(src, line)
         p == Parse(text)
     IN /\ parses' = Append(parses, text)
        /\ CASE p.class = "incomplete" ->
                  /\ src' = <<>>
                  /\ stdout' = Append(stdout, prompt2)
                  /\ UNCHANGED <<pc, stderr, runs, todo, rerr, exited>>
             [] p.class = "invalid" ->
                  /\ stderr' = Append(stderr, "parse error: ")
                  /\ src' = <<>>
                  /\ stdout' = Append(stdout, prompt)
                  /\ UNCHANGED <<pc, runs, todo, rerr, exited>>
             [] p.class = "ok" ->
                  /\ src' = <<>>
                  /\ StartRun(text)
                  /\ UNCHANGED <<stdout, stderr>>
  /\ UNCHANGED <<path, registry, ovars, dvars, inflight, ioErr, acquired, args, isTerminal, mode, source,
                 fileOpen, rexit, runErr, calls, ret, exitCode>>

\* runInteractiveLine that leaves the buffer as it is when the parse
\* succeeded
runInteractiveLine_NoResetBeforeRun(line) ==
  /\ pc = "scan" /\ Len(scanned) < MaxLines
  /\ scanned' = Append(scanned, line)
  /\ LET text == Append(src, line)
         p == Parse(text)
     IN /\ parses' = Append(parses, text)
        /\ CASE p.class = "incomplete" ->
                  /\ src' = text
                  /\ stdout' = Append(stdout, prompt2)
                  /\ UNCHANGED <<pc, stderr, runs, todo, rerr, exited>>
             [] p.class = "invalid" ->
                  /\ stderr' = Append(stderr, "parse error: ")
                  /\ src' = <<>>
                  /\ stdout' = Append(stdout, prompt)
                  /\ UNCHANGED <<pc, runs, todo, rerr, exited>>
             [] p.class = "ok" ->
                  /\ src' = text
                  /\ StartRun(text)
                  /\ UNCHANGED <<stdout, stderr>>
  /\ UNCHANGED <<path, registry, ovars, dvars, inflight, ioErr, acquired, args, isTerminal, mode, source,
                 fileOpen, rexit, runErr, calls, ret, exitCode>>

\* one pass of the loop of runInteractive up to runner.Run: read a line,
\* append it to the buffer, parse the whole buffer
runInteractiveLine(line) ==
  /\ pc = "scan" /\ Len(scanned) < MaxLines
  /\ scanned' = Append(scanned, line)
  /\ LET text == Append(src, line)
         p == Parse(text)
     IN /\ parses' = Append(parses, text)
        /\ CASE p.class = "incomplete" ->
                  /\ src' = text
                  /\ stdout' = Append(stdout, prompt2)
                  /\ UNCHANGED <<pc, stderr, runs, todo, rerr, exited>>
             [] p.class = "invalid" ->
                  /\ stderr' = Append(stderr, "parse error: ")
                  /\ src' = <<>>
                  /\ stdout' = Append(stdout, prompt)
                  /\ UNCHANGED <<pc, runs, todo, rerr, exited>>
             [] p.class = "ok" ->
                  /\ src' = <<>>
                  /\ StartRun(text)
                  /\ UNCHANGED <<stdout, stderr>>
  /\ UNCHANGED <<path, registry, ovars, dvars, inflight, ioErr, acquired, args, isTerminal, mode, source,
                 fileOpen, rexit, runErr, calls, ret, exitCode>>

\* runInteractiveEOF that reports a session in which something failed
runInteractiveEOF_ReturnsLastError ==
  /\ pc = "scan"
  /\ \E e \in {Nil, Err("read failed")} :
       /\ ioErr' = e
       /\ ret' = IF e # Nil THEN Err("reading input: " \o e.msg)
               ELSE IF stderr # <<>> THEN Err("session had errors") ELSE Nil
  /\ pc' = "returned"
  /\ UNCHANGED <<path, registry, ovars, dvars, inflight, acquired, parses, args, isTerminal, mode, source,
                 fileOpen, scanned, src, todo, rexit, rerr, exited, runErr,
                 runs, calls, stdout, stderr, exitCode>>

\* runInteractiveEOF that parses what is left in the buffer as a whole
\* program and reports the unfinished construct
runInteractiveEOF_RejectsIncomplete ==
  /\ pc = "scan"
  /\ \E e \in {Nil, Err("read failed")} :
       /\ ioErr' = e
       /\ ret' = IF e # Nil THEN Err("reading input: " \o e.msg)
               ELSE IF src # <<>> THEN Err("parse error: ") ELSE Nil
  /\ pc' = "returned"
  /\ UNCHANGED <<path, registry, ovars, dvars, inflight, acquired, parses, args, isTerminal, mode, source,
                 fileOpen, scanned, src, todo, rexit, rerr, exited, runErr,
                 runs, calls, stdout, stderr, exitCode>>

\* scanner.Scan returns false: runInteractive returns scanner.Err wrapped,
\* or nil at the end of the input
runInteractiveEOF ==
  /\ pc = "scan"
  /\ \E e \in {Nil, Err("read failed")} :
       /\ ioErr' = e
       /\ ret' = IF e # Nil THEN Err("reading input: " \o e.msg) ELSE Nil
  /\ pc' = "returned"
  /\ UNCHANGED <<path, registry, ovars, dvars, inflight, acquired, parses, args, isTerminal, mode, source,
                 fileOpen, scanned, src, todo, rexit, rerr, exited, runErr,
                 runs, calls, stdout, stderr, exitCode>>

\* runInteractiveAfterRun that ends the process on any error of the run
runInteractiveAfterRun_ExitOnError ==
  /\ pc = "ran" /\ mode = "Interactive"
  /\ IF runErr # Nil
       THEN /\ exitCode' = IF IsExitStatus(runErr) THEN runErr.status ELSE 1
            /\ stderr' = IF IsExitStatus(runErr) THEN stderr
                         ELSE Append(stderr, "runtime error: " \o runErr.msg)
            /\ pc' = "exited"
            /\ UNCHANGED stdout
       ELSE /\ stdout' = Append(stdout, prompt)
            /\ pc' = "scan"
            /\ UNCHANGED <<exitCode, stderr>>
  /\ UNCHANGED <<path, registry, ovars, dvars, inflight, hvars, args, isTerminal, mode, source, fileOpen,
                 scanned, src, todo, rexit, rerr, exited, runErr, runs, calls,
                 ret>>

\* the loop of runInteractive after runner.Run returned
runInteractiveAfterRun ==
  /\ pc = "ran" /\ mode = "Interactive"
  /\ IF IsExitStatus(runErr)
       THEN /\ exitCode' = runErr.status
            /\ pc' = "exited"
            /\ UNCHANGED <<stdout, stderr>>
       ELSE /\ stderr' = IF runErr # Nil
                           THEN Append(stderr, "runtime error: " \o runErr.msg)
                           ELSE stderr
            /\ stdout' = Append(stdout, prompt)
            /\ pc' = "scan"
            /\ UNCHANGED exitCode
  /\ UNCHANGED <<path, registry, ovars, dvars, inflight, hvars, args, isTerminal, mode, source, fileOpen,
                 scanned, src, todo, rexit, rerr, exited, runErr, runs, calls,
                 ret>>

\* the texts a pipe, a command string or a script file can hold
Texts == TextsUpTo(MaxLines)

\* runPipedScript that parses and runs an empty input like any other
runPipedScript_NoEmptyCheck ==
  /\ pc = "entered" /\ mode = "PipedScript"
  /\ \E e \in {Nil, Err("read failed")}, input \in Texts :
       /\ ioErr' = e
       /\ IF e # Nil
            THEN /\ ret' = Err("reading piped input: " \o e.msg)
                 /\ pc' = "returned"
                 /\ UNCHANGED <<acquired, parses, runs, todo, rerr, exited>>
            ELSE /\ acquired' = <<input>>
                 /\ IF FALSE
                      THEN /\ ret' = Nil
                           /\ pc' = "returned"
                           /\ UNCHANGED <<parses, runs, todo, rerr, exited>>
                      ELSE /\ parses' = Append(parses, input)
                           /\ IF Parse(input).class # "ok"
                                THEN /\ ret' = Err("parse error: ")
                                     /\ pc' = "returned"
                                     /\ UNCHANGED <<runs, todo, rerr, exited>>
                                ELSE /\ StartRun(input)
                                     /\ UNCHANGED ret
  /\ UNCHANGED <<path, registry, ovars, dvars, inflight, args, isTerminal, mode, source, fileOpen,
                 scanned, src, rexit, runErr, calls, stdout, stderr, exitCode>>

\* runPipedScript up to runner.Run: read all of stdin, parse it
runPipedScript ==
  /\ pc = "entered" /\ mode = "PipedScript"
  /\ \E e \in {Nil, Err("read failed")}, input \in Texts :
       /\ ioErr' = e
       /\ IF e # Nil
            THEN /\ ret' = Err("reading piped input: " \o e.msg)
                 /\ pc' = "returned"
                 /\ UNCHANGED <<acquired, parses, runs, todo, rerr, exited>>
            ELSE /\ acquired' = <<input>>
                 /\ IF Len(input) = 0
                      THEN /\ ret' = Nil
                           /\ pc' = "returned"
                           /\ UNCHANGED <<parses, runs, todo, rerr, exited>>
                      ELSE /\ parses' = Append(parses, input)
                           /\ IF Parse(input).class # "ok"
                                THEN /\ ret' = Err("parse error: ")
                                     /\ pc' = "returned"
                                     /\ UNCHANGED <<runs, todo, rerr, exited>>
                                ELSE /\ StartRun(input)
                                     /\ UNCHANGED ret
  /\ UNCHANGED <<path, registry, ovars, dvars, inflight, args, isTerminal, mode, source, fileOpen,
                 scanned, src, rexit, runErr, calls, stdout, stderr, exitCode>>

\* runCommand that runs whatever the parser returned, error or not
runCommand_IgnoresParseError ==
  /\ pc = "entered" /\ mode = "CommandString"
  /\ \E command \in Texts :
       /\ acquired' = <<command>>
       /\ parses' = Append(parses, command)
       /\ IF FALSE
            THEN /\ ret' = Err("parse error: ")
                 /\ pc' = "returned"
                 /\ UNCHANGED <<runs, todo, rerr, exited>>
            ELSE /\ StartRun(command)
                 /\ UNCHANGED ret
  /\ UNCHANGED <<path, registry, ovars, dvars, inflight, ioErr, args, isTerminal, mode, source, fileOpen,
                 scanned, src, rexit, runErr, calls, stdout, stderr, exitCode>>

\* runCommand up to runner.Run: parse the command string
runCommand ==
  /\ pc = "entered" /\ mode = "CommandString"
  /\ \E command \in Texts :
       /\ acquired' = <<command>>
       /\ parses' = Append(parses, command)
       /\ IF Parse(command).class # "ok"
            THEN /\ ret' = Err("parse error: ")
                 /\ pc' = "returned"
                 /\ UNCHANGED <<runs, todo, rerr, exited>>
            ELSE /\ StartRun(command)
                 /\ UNCHANGED ret
  /\ UNCHANGED <<path, registry, ovars, dvars, inflight, ioErr, args, isTerminal, mode, source, fileOpen,
                 scanned, src, rexit, runErr, calls, stdout, stderr, exitCode>>

\* runScript that reports a file it cannot open as a parse error
runScript_OpenErrorAsParseError ==
  /\ pc = "entered" /\ mode = "FileScript"
  /\ \E e \in {Nil, Err("no such file")}, content \in Texts :
       /\ ioErr' = e
       /\ IF e # Nil
            THEN /\ ret' = Err("parse error: ")
                 /\ pc' = "returned"
                 /\ UNCHANGED <<acquired, parses, fileOpen, runs, todo, rerr,
                                exited>>
            ELSE /\ acquired' = <<content>>
                 /\ parses' = Append(parses, content)
                 /\ IF Parse(content).class # "ok"
                      THEN /\ ret' = Err("parse error: ")
                           /\ pc' = "returned"
                           /\ fileOpen' = FALSE
                           /\ UNCHANGED <<runs, todo, rerr, exited>>
                      ELSE /\ StartRun(content)
                           /\ fileOpen' = TRUE
                           /\ UNCHANGED ret
  /\ UNCHANGED <<path, registry, ovars, dvars, inflight, args, isTerminal, mode, source,
                 scanned, src, rexit, runErr, calls, stdout, stderr, exitCode>>

\* runScript up to runner.Run: open the file, parse it; the deferred
\* file.Close runs when runScript returns
runScript ==
  /\ pc = "entered" /\ mode = "FileScript"
  /\ \E e \in {Nil, Err("no such file")}, content \in Texts :
       /\ ioErr' = e
       /\ IF e # Nil
            THEN /\ ret' = Err("opening script file: " \o e.msg)
                 /\ pc' = "returned"
                 /\ UNCHANGED <<acquired, parses, fileOpen, runs, todo, rerr,
                                exited>>
            ELSE /\ acquired' = <<content>>
                 /\ parses' = Append(parses, content)
                 /\ IF Parse(content).class # "ok"
                      THEN /\ ret' = Err("parse error: ")
                           /\ pc' = "returned"
                           /\ fileOpen' = FALSE
                           /\ UNCHANGED <<runs, todo, rerr, exited>>
                      ELSE /\ StartRun(content)
                           /\ fileOpen' = TRUE
                           /\ UNCHANGED ret
  /\ UNCHANGED <<path, registry, ovars, dvars, inflight, args, isTerminal, mode, source,
                 scanned, src, rexit, runErr, calls, stdout, stderr, exitCode>>

\* scriptAfterRun that exits with 1 whatever status the run ended with
scriptAfterRun_ExitOne ==
  /\ pc = "ran" /\ mode \in {"PipedScript", "CommandString", "FileScript"}
  /\ IF IsExitStatus(runErr)
       THEN /\ exitCode' = 1
            /\ pc' = "exited"
            /\ UNCHANGED <<ret, fileOpen>>
       ELSE /\ ret' = IF runErr # Nil
                        THEN Err("runtime error: " \o runErr.msg)
                        ELSE Nil
            /\ fileOpen' = FALSE
            /\ pc' = "returned"
            /\ UNCHANGED exitCode
  /\ UNCHANGED <<path, registry, ovars, dvars, inflight, hvars, args, isTerminal, mode, source,
                 scanned, src, todo, rexit, rerr, exited, runErr, runs, calls,
                 stdout, stderr>>

\* scriptAfterRun that ends the process itself on every error of the run
scriptAfterRun_ExitsOnAnyError ==
  /\ pc = "ran" /\ mode \in {"PipedScript", "CommandString", "FileScript"}
  /\ IF runErr # Nil
       THEN /\ exitCode' = IF IsExitStatus(runErr) THEN runErr.status ELSE 1
            /\ pc' = "exited"
            /\ UNCHANGED <<ret, fileOpen>>
       ELSE /\ ret' = IF runErr # Nil
                        THEN Err("runtime error: " \o runErr.msg)
                        ELSE Nil
            /\ fileOpen' = FALSE
            /\ pc' = "returned"
            /\ UNCHANGED exitCode
  /\ UNCHANGED <<path, registry, ovars, dvars, inflight, hvars, args, isTerminal, mode, source,
                 scanned, src, todo, rexit, rerr, exited, runErr, runs, calls,
                 stdout, stderr>>

\* runPipedScript, runCommand and runScript after runner.Run returned;
\* os.Exit ends the process at once, a return runs the deferred Close
scriptAfterRun ==
  /\ pc = "ran" /\ mode \in {"PipedScript", "CommandString", "FileScript"}
  /\ IF IsExitStatus(runErr)
       THEN /\ exitCode' = runErr.status
            /\ pc' = "exited"
            /\ UNCHANGED <<ret, fileOpen>>
       ELSE /\ ret' = IF runErr # Nil
                        THEN Err("runtime error: " \o runErr.msg)
                        ELSE Nil
            /\ fileOpen' = FALSE
            /\ pc' = "returned"
            /\ UNCHANGED exitCode
  /\ UNCHANGED <<path, registry, ovars, dvars, inflight, hvars, args, isTerminal, mode, source,
                 scanned, src, todo, rexit, rerr, exited, runErr, runs, calls,
                 stdout, stderr>>

\* goshCmd after shell.Run returned: an error is printed and the process
\* exits with 1, otherwise the process ends with 0
goshCmd ==
  /\ pc = "returned"
  /\ IF ret # Nil
       THEN /\ stderr' = Append(stderr, "Error: " \o ret.msg)
            /\ exitCode' = 1
       ELSE /\ exitCode' = 0
            /\ UNCHANGED stderr
  /\ pc' = "exited"
  /\ UNCHANGED <<path, registry, ovars, dvars, inflight, hvars, args, isTerminal, mode, source, fileOpen,
                 scanned, src, todo, rexit, rerr, exited, runErr, runs, calls,
                 stdout, ret>>

\* jqCmd that treats a failure of gojq as the other subcommands treat
\* theirs: exit code 1
jqCmd_ExitsOne ==
  /\ pc = "start" /\ tool = "jq"
  /\ \E n \in CliCodes :
       /\ cliCode' = n
       /\ IF n # 0
            THEN /\ exitCode' = 1
                 /\ osArgs' = <<"gojq">> \o args
            ELSE /\ exitCode' = 0
                 /\ osArgs' = osArgs
  /\ pc' = "exited"
  /\ UNCHANGED <<path, registry, dvars, g, tool, mk, inflight, hvars, args,
                 isTerminal, mode, source, fileOpen, scanned, src, todo, rexit,
                 rerr, exited, runErr, runs, calls, stdout, stderr, ret>>

\* jqCmd, the top-level jq subcommand: os.Args is set for gojq, cli.Run
\* runs, and a non-zero code ends the process with that code at once; else
\* the deferred function restores os.Args and the process ends with 0
jqCmd ==
  /\ pc = "start" /\ tool = "jq"
  /\ \E n \in CliCodes :
       /\ cliCode' = n
       /\ IF n # 0
            THEN /\ exitCode' = n
                 /\ osArgs' = <<"gojq">> \o args
            ELSE /\ exitCode' = 0
                 /\ osArgs' = osArgs
  /\ pc' = "exited"
  /\ UNCHANGED <<path, registry, dvars, g, tool, mk, inflight, hvars, args,
                 isTerminal, mode, source, fileOpen, scanned, src, todo, rexit,
                 rerr, exited, runErr, runs, calls, stdout, stderr, ret>>

(* ------------------------------------------------------------------ *)
(* runner.Run                                                          *)
(* ------------------------------------------------------------------ *)
\* the runner has stopped executing commands
RunnerStopped == todo = <<>> \/ rerr # Nil \/ exited

\* runnerStep of a runner built without interp.ExecHandler: every command
\* goes to the process executor
runnerStep_NoExecHandler ==
  /\ pc = "running" /\ ~RunnerStopped /\ inflight = <<>>
  /\ Head(todo).kind # "pipe"
  /\ LET c == Head(todo)
     IN /\ todo' = Tail(todo)
        /\ IF c.kind = "exit"
             THEN /\ rexit' = c.status
                  /\ exited' = TRUE
                  /\ UNCHANGED <<rerr, calls>>
             ELSE \E r \in DefaultExecHandler(c.argv, path) :
                    /\ calls' = Append(calls, Call("DefaultExecHandler", ctxRun,
                                                   c.argv, r))
                    /\ rexit' = IF IsExitStatus(r) THEN r.status
                                ELSE IF r = Nil THEN 0 ELSE rexit
                    /\ rerr' = IF r.kind = "error" THEN r ELSE rerr
                    /\ UNCHANGED exited
  /\ UNCHANGED <<path, registry, ovars, dvars, inflight, hvars, args, isTerminal, pc, mode, source, fileOpen,
                 scanned, src, runErr, runs, stdout, stderr, ret, exitCode>>

\* the runner executes the next command of the program: the exit builtin
\* sets the status and ends the program; any other command goes to the
\* exec handler, whose exit status becomes the status and whose other
\* errors halt the runner
runnerStep ==
  /\ pc = "running" /\ ~RunnerStopped /\ inflight = <<>>
  /\ Head(todo).kind # "pipe"
  /\ LET c == Head(todo)
     IN /\ todo' = Tail(todo)
        /\ IF c.kind = "exit"
             THEN /\ rexit' = c.status
                  /\ exited' = TRUE
                  /\ UNCHANGED <<rerr, calls>>
             ELSE \E o \in createExecHandler(ctxRun, c.argv, path) :
                    /\ calls' = calls \o o.calls
                    /\ rexit' = IF IsExitStatus(o.result) THEN o.result.status
                                ELSE IF o.result = Nil THEN 0 ELSE rexit
                    /\ rerr' = IF o.result.kind = "error" THEN o.result ELSE rerr
                    /\ UNCHANGED exited
  /\ UNCHANGED <<path, registry, ovars, dvars, inflight, hvars, args, isTerminal, pc, mode, source, fileOpen,
                 scanned, src, runErr, runs, stdout, stderr, ret, exitCode>>

\* position of the word "|" in the argument vectors of a pipeline
Bar(a) == CHOOSE i \in 1..Len(a) : a[i] = "|"

\* the argument vectors of the two sides of a pipeline
Left(a) == SubSeq(a, 1, Bar(a) - 1)
Right(a) == SubSeq(a, Bar(a) + 1, Len(a))

\* one side of a pipeline: its argument vector, whether the exec handler
\* has been called for it and has returned, and what it returned
Side(a) == [argv |-> a, st |-> "pending", result |-> Nil]

\* the runner reaches a pipeline: the left side is given to a goroutine of
\* its own, the right side stays with the runner, and neither waits for the
\* other before it calls the exec handler
runnerPipe ==
  /\ pc = "running" /\ ~RunnerStopped /\ inflight = <<>>
  /\ Head(todo).kind = "pipe"
  /\ inflight' = <<Side(Left(Head(todo).argv)), Side(Right(Head(todo).argv))>>
  /\ todo' = Tail(todo)
  /\ UNCHANGED <<path, registry, ovars, dvars, hvars, args, isTerminal, pc, mode, source,
                 fileOpen, scanned, src, rexit, rerr, exited, runErr, runs,
                 calls, stdout, stderr, ret, exitCode>>

\* side i of the pipeline calls the exec handler
pipeCall(i) ==
  /\ pc = "running" /\ i \in DOMAIN inflight
  /\ inflight[i].st = "pending"
  /\ inflight' = [inflight EXCEPT ![i].st = "called"]
  /\ UNCHANGED <<path, registry, ovars, dvars, hvars, args, isTerminal, pc, mode, source,
                 fileOpen, scanned, src, todo, rexit, rerr, exited, runErr,
                 runs, calls, stdout, stderr, ret, exitCode>>

\* the exec handler returns to side i of the pipeline
pipeReturn(i) ==
  /\ pc = "running" /\ i \in DOMAIN inflight
  /\ inflight[i].st = "called"
  /\ \E o \in createExecHandler(ctxRun, inflight[i].argv, path) :
       /\ calls' = calls \o o.calls
       /\ inflight' = [inflight EXCEPT ![i].st = "returned",
                                       ![i].result = o.result]
  /\ UNCHANGED <<path, registry, ovars, dvars, hvars, args, isTerminal, pc, mode, source,
                 fileOpen, scanned, src, todo, rexit, rerr, exited, runErr,
                 runs, stdout, stderr, ret, exitCode>>

\* both sides have returned: the status of the pipeline is that of its right
\* side, and a fatal error of either side halts the runner
pipeWait ==
  /\ pc = "running" /\ inflight # <<>>
  /\ \A i \in DOMAIN inflight : inflight[i].st = "returned"
  /\ LET x == inflight[1].result
         y == inflight[2].result
     IN /\ rexit' = IF IsExitStatus(y) THEN y.status
                    ELSE IF y = Nil THEN 0 ELSE rexit
        /\ rerr' = IF y.kind = "error" THEN y
                   ELSE IF x.kind = "error" THEN x ELSE rerr
  /\ inflight' = <<>>
  /\ UNCHANGED <<path, registry, ovars, dvars, hvars, args, isTerminal, pc, mode, source,
                 fileOpen, scanned, src, todo, exited, runErr, runs, calls,
                 stdout, stderr, ret, exitCode>>

\* the error runner.Run returns: the fatal error, else the exit status
\* when it is not zero, else nil
RunResult(e, status) ==
  IF e # Nil THEN e
  ELSE IF status # 0 THEN NewExitStatus(status) ELSE Nil

\* runner.Run returns
runnerReturn ==
  /\ pc = "running" /\ RunnerStopped /\ inflight = <<>>
  /\ runErr' = RunResult(rerr, rexit)
  /\ pc' = "ran"
  /\ UNCHANGED <<path, registry, ovars, dvars, inflight, hvars, args, isTerminal, mode, source, fileOpen,
                 scanned, src, todo, rexit, rerr, exited, runs, calls, stdout,
                 stderr, ret, exitCode>>

(* ------------------------------------------------------------------ *)
(* Specifications                                                      *)
(* ------------------------------------------------------------------ *)
Next ==
  \/ Run
  \/ runInteractiveBegin
  \/ \E line \in Lines : runInteractiveLine(line)
  \/ runInteractiveEOF
  \/ runInteractiveAfterRun
  \/ runPipedScript
  \/ runCommand
  \/ runScript
  \/ scriptAfterRun
  \/ goshCmd
  \/ jqCmd
  \/ runnerStep
  \/ runnerPipe
  \/ \E i \in 1..2 : pipeCall(i)
  \/ \E i \in 1..2 : pipeReturn(i)
  \/ pipeWait
  \/ runnerReturn

Spec == Init /\ [][Next]_vars

\* words of the argument vectors the exec handler is called with on its own
Words ==
  {"jq", "make", "ls", "nosuch", "-la", "JQ", "/usr/bin/jq", "./jq",
   "apigen", "datagen", "config", "shell"}
Argvs == UNION {[1..k -> Words] : k \in 0..MaxArgv}
Ctxs == {"ctxA", "ctxB"}

\* the argument createExecHandler passes to interp.DefaultExecHandler: its
\* kill timeout, which plays no part while the context is not cancelled
killTimeout == 2097152

\* bytes an external process may write: amounts at and above the number
\* the handler is built with
OutputSizes == {killTimeout, killTimeout + 1}

\* an external process was started: the executor was called and did not
\* report a missing executable
ProcessRan(cs) ==
  \E i \in 1..Len(cs) :
    cs[i].callee = "DefaultExecHandler" /\ cs[i].ret # NewExitStatus(127)

\* ExecDispatcher that binds a name it missed to the process executor, so
\* that the next lookup of the name hits
ExecDispatcher_RegistersMiss ==
  /\ dpc = "idle"
  /\ \E c \in Ctxs, a \in Argvs, n \in OutputSizes :
     \E o \in createExecHandler(c, a, path) :
      /\ dpc' = "done"
      /\ dctx' = c
      /\ dargv' = a
      /\ dcalls' = o.calls
      /\ dresult' = o.result
      /\ doutput' = IF ProcessRan(o.calls) THEN n ELSE 0
      /\ registry' =
           IF Len(a) > 0 /\ a[1] \notin DOMAIN registry
             THEN [w \in DOMAIN registry \cup {a[1]} |->
                     IF w \in DOMAIN registry THEN registry[w]
                     ELSE "DefaultExecHandler"]
             ELSE registry
      /\ UNCHANGED <<path, ovars, svars>>

\* one call of the exec handler; the process it starts writes straight to
\* the session's streams, whatever the amount
ExecDispatcher ==
  /\ dpc = "idle"
  /\ \E c \in Ctxs, a \in Argvs, n \in OutputSizes :
     \E o \in createExecHandler(c, a, path) :
      /\ dpc' = "done"
      /\ dctx' = c
      /\ dargv' = a
      /\ dcalls' = o.calls
      /\ dresult' = o.result
      /\ doutput' = IF ProcessRan(o.calls) THEN n ELSE 0
      /\ UNCHANGED <<path, registry, ovars, svars>>

\* the caller is done with what the exec handler returned and may call it
\* again
ExecCaller ==
  /\ dpc = "done"
  /\ dpc' = "idle"
  /\ dctx' = ""
  /\ dargv' = <<>>
  /\ dcalls' = <<>>
  /\ dresult' = Nil
  /\ doutput' = 0
  /\ UNCHANGED <<path, registry, ovars, svars>>

DispatchNext == ExecDispatcher \/ ExecCaller

DispatchSpec == Init /\ [][DispatchNext]_vars

(* ------------------------------------------------------------------ *)
(* The builtins that swap os.Args                                      *)
(* ------------------------------------------------------------------ *)
\* runJq, runYq, runKubectl and runDatabricks have one shape: save os.Args,
\* set it to the tool name followed by the arguments, run the wrapped CLI,
\* restore os.Args in a deferred function
Swappers == {"runJq", "runYq", "runKubectl", "runDatabricks"}

\* the name each of them puts in front of the arguments
toolName(fn) ==
  CASE fn \in {"runJq", "RunJQ"} -> "gojq"
    [] fn = "runYq" -> "yq"
    [] fn = "runKubectl" -> "kubectl"
    [] fn = "runDatabricks" -> "databricks"

\* argument lists the builtins are called with
SwapArgs == {<<>>, <<".">>}

\* the goroutine is between the entry and the return of a builtin
Active(r) == r.pc \in {"saved", "set", "ran"}

\* oldArgs := os.Args, on entry
swapSave(i, fn, a) ==
  /\ ~Active(g[i]) /\ g[i].n < MaxCalls
  /\ g' = [j \in Goroutines |->
             IF j = i
               THEN [pc |-> "saved", fn |-> fn, args |-> a, oldArgs |-> osArgs,
                     entry |-> osArgs,
                     alone |-> \A k \in Goroutines \ {i} : ~Active(g[k]),
                     result |-> Nil, n |-> g[i].n + 1]
               ELSE IF Active(g[j]) THEN [g[j] EXCEPT !.alone = FALSE]
               ELSE g[j]]
  /\ UNCHANGED <<path, registry, dvars, svars, tvars, mk, osArgs>>

\* os.Args = append([]string{tool}, args...)
swapSet(i) ==
  /\ g[i].pc = "saved"
  /\ osArgs' = <<toolName(g[i].fn)>> \o g[i].args
  /\ g' = [g EXCEPT ![i].pc = "set"]
  /\ UNCHANGED <<path, registry, dvars, svars, tvars, mk>>

\* the filter RunJQ of package embed puts in place of a shortcut
Shortcut(w) ==
  CASE w = ".keys" -> "keys"
    [] w = ".values" -> "values"
    [] w = ".length" -> "length"
    [] w = ".pretty" -> "."
    [] w = ".compact" -> "."
    [] w = ".type" -> "type"
    [] w = ".reverse" -> "reverse"
    [] w = ".sort" -> "sort"
    [] w = ".unique" -> "unique"
    [] w = ".flatten" -> "flatten"
    [] w = ".min" -> "min"
    [] w = ".max" -> "max"
    [] w = ".sum" -> "add"
    [] w = ".avg" -> "add/length"
    [] OTHER -> w

\* argument lists RunJQ is called with
EmbedArgs == {<<>>, <<".keys">>}

\* RunJQ of package embed, which embed.Run calls for its command jq from
\* whatever goroutine its caller is on, up to oldArgs := os.Args: a shortcut
\* in args[0] is rewritten in the slice of the caller; from there on it has
\* the shape of runJq, with "gojq" in front of the rewritten arguments
RunJQ(i, a) ==
  swapSave(i, "RunJQ",
           IF Len(a) > 0 THEN <<Shortcut(a[1])>> \o Tail(a) ELSE a)

\* RunJQ, from the exit code of cli.Run to what it returns
RunJQResult(code) ==
  IF code # 0
    THEN Err("jq processing failed with exit code: " \o ToString(code))
    ELSE Nil

\* what the wrapped CLI returns: runJq and RunJQ turn a non-zero code of
\* cli.Run into an error, the others return the error of Execute
swapOutcomes(fn, a) ==
  IF fn = "RunJQ" THEN {RunJQResult(n) : n \in CliCodes}
  ELSE BuiltinOutcomes(fn, a)

\* swapRestore that leaves os.Args as the builtin set it
swapRestore_NoRestore(i) ==
  /\ g[i].pc = "ran"
  /\ osArgs' = osArgs
  /\ g' = [g EXCEPT ![i] = [NotCalled EXCEPT !.pc = "done", !.n = g[i].n]]
  /\ UNCHANGED <<path, registry, dvars, svars, tvars, mk>>

\* the wrapped CLI runs, with os.Args as it is at that moment, and returns
swapRun(i) ==
  /\ g[i].pc = "set"
  /\ \E r \in swapOutcomes(g[i].fn, g[i].args) :
       g' = [g EXCEPT ![i].pc = "ran", ![i].result = r]
  /\ UNCHANGED <<path, registry, dvars, svars, tvars, mk, osArgs>>

\* the builtin returns: the deferred function puts oldArgs back
swapRestore(i) ==
  /\ g[i].pc = "ran"
  /\ osArgs' = g[i].oldArgs
  /\ g' = [g EXCEPT ![i] = [NotCalled EXCEPT !.pc = "done", !.n = g[i].n]]
  /\ UNCHANGED <<path, registry, dvars, svars, tvars, mk>>

SwapNext ==
  \/ \E i \in Goroutines, fn \in Swappers, a \in SwapArgs : swapSave(i, fn, a)
  \/ \E i \in Goroutines, a \in EmbedArgs : RunJQ(i, a)
  \/ \E i \in Goroutines : swapSet(i)
  \/ \E i \in Goroutines : swapRun(i)
  \/ \E i \in Goroutines : swapRestore(i)

\* the builtins are called from a shell started without arguments
SwapInit == Init /\ tool = "shell" /\ args = <<>> /\ isTerminal /\ path = {}

SwapSpec == SwapInit /\ [][SwapNext]_vars

(* ------------------------------------------------------------------ *)
(* runMake                                                             *)
(* ------------------------------------------------------------------ *)
\* most targets given to make
MaxTargets == 2

\* targets of the Makefile; the first is its default target
Targets == {"all", "test", "clean"}
TargetLists == UNION {[1..k -> Targets] : k \in 0..MaxTargets}

\* what runMake asks of the make command is logged in mk.built: the name
\* of a target for Build, this for BuildDefault
BuildDefault == "BuildDefault"

\* runMake is called with the targets a, in a directory where the targets
\* in F fail to build and, when e holds, makecmd.New fails
runMakeNew(a, F, e) ==
  /\ mk.pc = "idle"
  /\ mk' = IF e
            THEN [MakeIdle EXCEPT !.pc = "done", !.args = a, !.failing = F,
                    !.newErr = e,
                    !.result = Err("error creating make command: no Makefile")]
            ELSE [MakeIdle EXCEPT !.pc = "created", !.args = a, !.failing = F,
                    !.i = 1]
  /\ UNCHANGED <<path, registry, dvars, svars, tvars, osArgs, g>>

\* no target given: the default target is built and its error returned
runMakeDefault ==
  /\ mk.pc = "created" /\ Len(mk.args) = 0
  /\ mk' = [mk EXCEPT !.pc = "done",
                       !.built = Append(mk.built, BuildDefault),
                       !.result = IF "all" \in mk.failing THEN Err("failed")
                                  ELSE Nil]
  /\ UNCHANGED <<path, registry, dvars, svars, tvars, osArgs, g>>

\* runMakeBuild that goes on after a failed target and reports the first
\* failure at the end
runMakeBuild_KeepsGoing ==
  /\ mk.pc = "created" /\ Len(mk.args) > 0 /\ mk.i <= Len(mk.args)
  /\ LET target == mk.args[mk.i]
     IN mk' = [mk EXCEPT
                 !.built = Append(mk.built, target),
                 !.i = mk.i + 1,
                 !.result =
                    IF target \in mk.failing /\ mk.result = Nil
                      THEN Err("error building target '" \o target
                               \o "': failed")
                      ELSE mk.result,
                 !.pc = IF mk.i = Len(mk.args) /\
                           (target \in mk.failing \/ mk.result # Nil)
                          THEN "done" ELSE "created"]
  /\ UNCHANGED <<path, registry, dvars, svars, tvars, osArgs, g>>

\* one pass of the loop over the targets: Build, and return at its error
runMakeBuild ==
  /\ mk.pc = "created" /\ Len(mk.args) > 0 /\ mk.i <= Len(mk.args)
  /\ LET target == mk.args[mk.i]
     IN mk' = IF target \in mk.failing
               THEN [mk EXCEPT !.built = Append(mk.built, target),
                               !.pc = "done",
                               !.result = Err("error building target '"
                                              \o target \o "': failed")]
               ELSE [mk EXCEPT !.built = Append(mk.built, target),
                               !.i = mk.i + 1]
  /\ UNCHANGED <<path, registry, dvars, svars, tvars, osArgs, g>>

\* the loop is over: return nil
runMakeReturn ==
  /\ mk.pc = "created" /\ Len(mk.args) > 0 /\ mk.i > Len(mk.args)
  /\ mk' = [mk EXCEPT !.pc = "done", !.result = Nil]
  /\ UNCHANGED <<path, registry, dvars, svars, tvars, osArgs, g>>

MakeNext ==
  \/ \E a \in TargetLists, F \in SUBSET Targets, e \in BOOLEAN :
       runMakeNew(a, F, e)
  \/ runMakeDefault
  \/ runMakeBuild
  \/ runMakeReturn

MakeSpec == SwapInit /\ [][MakeNext]_vars

(* ------------------------------------------------------------------ *)
(* The exec handler                                                    *)
(* ------------------------------------------------------------------ *)
\* the exec handler was called with a registered command name
DispatchHit == dpc = "done" /\ Len(dargv) > 0 /\ dargv[1] \in DOMAIN builtins

\* the exec handler was called with a command name that is not registered
DispatchMiss == dpc = "done" /\ Len(dargv) > 0 /\ dargv[1] \notin DOMAIN builtins

\* C1: when argv[0] is a key of the registry, the exec handler invokes the
\* builtin and never the process executor, whether or not an executable of
\* that name is on the search path.
C1_BuiltinShadowsExternal ==
  DispatchHit =>
    /\ \A i \in 1..Len(dcalls) : dcalls[i].callee # "DefaultExecHandler"
    /\ \E i \in 1..Len(dcalls) : dcalls[i].callee = builtins[dargv[1]]

\* a registered name was dispatched while an executable of that name was
\* installed
C1_Witness ==
  /\ DispatchHit
  /\ dargv[1] = "jq" /\ "jq" \in path
  /\ dcalls # <<>> /\ dcalls[1].callee = "runJq"

\* C2: for an empty argv the exec handler returns success and calls neither
\* a builtin nor the process executor.
C2_EmptyArgvIsNoOp ==
  (dpc = "done" /\ dargv = <<>>) => (dresult = Nil /\ dcalls = <<>>)

\* the exec handler returned from a call with an empty argv
C2_Witness == dpc = "done" /\ dargv = <<>> /\ dresult = Nil

\* C3: for a non-empty argv whose argv[0] is not registered the exec handler
\* calls the process executor exactly once with the whole argv and returns
\* what the executor returned; no builtin is called.
C3_MissForwardsWholeArgv ==
  DispatchMiss =>
    /\ Len(dcalls) = 1
    /\ dcalls[1].callee = "DefaultExecHandler"
    /\ dcalls[1].args = dargv
    /\ dresult = dcalls[1].ret

\* "ls -la" went to the process executor, which reported a non-zero status
C3_Witness ==
  /\ DispatchMiss
  /\ dargv = <<"ls", "-la">>
  /\ dcalls[1].args = <<"ls", "-la">>
  /\ dresult.kind = "exitStatus" /\ dresult.status = 2

\* C4: on a registry hit exactly the handler registered under argv[0] is
\* called, once, with the caller's ctx and argv[1:]; the result is success
\* iff the handler succeeded, and a failure carries the handler's message.
C4_HitCallsHandlerOnce ==
  DispatchHit =>
    /\ Len(dcalls) = 1
    /\ dcalls[1].callee = builtins[dargv[1]]
    /\ dcalls[1].ctx = dctx
    /\ dcalls[1].args = Tail(dargv)
    /\ (dresult = Nil) <=> (dcalls[1].ret = Nil)
    /\ dcalls[1].ret # Nil =>
         (dresult.kind = "error" /\ dresult.msg = dcalls[1].ret.msg)

\* "make ls" reached runMake with <<"ls">>, and its failure came back
C4_Witness ==
  /\ DispatchHit
  /\ dargv = <<"make", "ls">> /\ dctx = "ctxB"
  /\ dcalls[1].callee = "runMake" /\ dcalls[1].args = <<"ls">>
  /\ dresult.kind = "error"

(* ------------------------------------------------------------------ *)
(* Mode selection                                                      *)
(* ------------------------------------------------------------------ *)
Modes == {"Interactive", "PipedScript", "CommandString", "FileScript"}

\* the mode and the argument it works on follow from the argument list and
\* the terminal state alone
C5_ModeByCase ==
  mode # "none" =>
    /\ mode \in Modes
    /\ (args = <<>> /\ isTerminal) => mode = "Interactive"
    /\ (args = <<>> /\ ~isTerminal) => mode = "PipedScript"
    /\ (Len(args) = 2 /\ args[1] = "-c") =>
         (mode = "CommandString" /\ source = args[2])
    /\ (args # <<>> /\ ~(Len(args) = 2 /\ args[1] = "-c")) =>
         (mode = "FileScript" /\ source = args[1])

\* shell.Run returned the error of interp.New: no mode function was called,
\* nothing was read, parsed or run
CreationFailed ==
  /\ mode = "none" /\ source = ""
  /\ pc \in {"returned", "exited"}
  /\ ret \in {Err("error creating shell interpreter: " \o e.msg) :
               e \in interpNew \ {Nil}}
  /\ scanned = <<>> /\ runs = <<>> /\ parses = <<>> /\ acquired = <<>>

\* C5 as the specification has it: every invocation of shell.Run enters
\* exactly one of the four modes, chosen from the argument list and the
\* terminal state of stdin only, and the mode never changes afterwards.
C5_EveryInvocationEntersAMode ==
  /\ []((tool = "shell" /\ pc # "start") => mode \in Modes)
  /\ []C5_ModeByCase
  /\ [][mode # "none" => mode' = mode]_vars

\* C5, amended: shell.Run enters exactly one mode unless the interpreter
\* cannot be created, and then it returns that error without entering any;
\* the mode is chosen from the argument list and the terminal state of
\* stdin only (no arguments: Interactive on a terminal, PipedScript
\* otherwise; exactly <<"-c", s>>: CommandString on s; any other non-empty
\* list: FileScript on args[0]), and it never changes afterwards.
C5_ModeSelectedOnce ==
  /\ []((tool = "shell" /\ pc # "start") =>
          (mode \in Modes \/ CreationFailed))
  /\ []C5_ModeByCase
  /\ [][mode # "none" => mode' = mode]_vars

\* a lone "-c" was taken for a script path and the session ran to its end
C5_Witness ==
  /\ args = <<"-c">> /\ mode = "FileScript" /\ source = "-c"
  /\ pc = "exited"

(* ------------------------------------------------------------------ *)
(* Interactive mode                                                    *)
(* ------------------------------------------------------------------ *)
\* a line is read in this step
ReadsLine == pc = "scan" /\ scanned' # scanned

\* the buffer with the line read in this step appended
Accumulated == Append(src, scanned'[Len(scanned')])

\* C6: in interactive mode, while the accumulated lines are an incomplete
\* prefix nothing is run and the lines are kept in order; the line that
\* completes the construct makes the whole accumulated text run, once. Runs
\* start at no other moment.
C6_ContinuationThenOneRun ==
  /\ [][ReadsLine =>
          /\ Parse(Accumulated).class = "incomplete" =>
               (runs' = runs /\ calls' = calls /\ src' = Accumulated
                /\ pc' = "scan")
          /\ Parse(Accumulated).class = "ok" =>
               (runs' = Append(runs, Accumulated) /\ pc' = "running")]_vars
  /\ [][(mode = "Interactive" /\ runs' # runs) => ReadsLine]_vars
  /\ [](mode = "Interactive" =>
          /\ Len(src) <= Len(scanned)
          /\ src = SubSeq(scanned, Len(scanned) - Len(src) + 1, Len(scanned)))

\* a three-line block was fed line by line and has been handed to the
\* runner once, as a whole
C6_Witness ==
  /\ mode = "Interactive"
  /\ scanned = <<Open, Cmd(<<"jq", ".">>), Close>>
  /\ runs = <<scanned>>
  /\ pc = "running"

\* C7: in every mode a run that ends with explicit termination carrying a
\* status N in 1..255 makes the process exit with code N, with nothing
\* written to the error stream; an ordinary failure instead continues the
\* loop in interactive mode and leads to exit code 1, after an error
\* message, in the other modes.
C7_ExplicitTerminationExitsWithStatus ==
  /\ [][(pc = "ran" /\ runErr.kind = "exitStatus" /\ runErr.status \in 1..255) =>
          (pc' = "exited" /\ exitCode' = runErr.status /\ stderr' = stderr)]_vars
  /\ [][(pc = "ran" /\ runErr.kind = "error") =>
          IF mode = "Interactive"
            THEN pc' = "scan" /\ exitCode' = -1
            ELSE pc' = "returned" /\ ret'.kind = "error" /\ exitCode' = -1]_vars
  /\ [][(pc = "returned" /\ ret.kind = "error") =>
          (pc' = "exited" /\ exitCode' = 1 /\ stderr' # stderr)]_vars

\* a script file ended with "exit 7" and the process exited with 7
C7_Witness ==
  /\ mode = "FileScript"
  /\ runErr = [kind |-> "exitStatus", msg |-> "", status |-> 7]
  /\ pc = "exited" /\ exitCode = 7 /\ stderr = <<>>

\* C8: in interactive mode a run that ends in a builtin's ordinary failure
\* is written to the error stream, the process does not exit, the primary
\* prompt is printed and the loop is back at reading a line with an empty
\* buffer.
C8_InteractiveFailureContinues ==
  [][(pc = "ran" /\ mode = "Interactive" /\ runErr.kind = "error") =>
       /\ stderr' = Append(stderr, "runtime error: " \o runErr.msg)
       /\ stdout' = Append(stdout, prompt)
       /\ exitCode' = -1
       /\ pc' = "scan"
       /\ src' = <<>>]_vars

\* after a failed jq the next line was read and its program started
C8_Witness ==
  /\ mode = "Interactive"
  /\ stderr = <<"runtime error: jq exited with code 5">>
  /\ Len(runs) = 2 /\ Len(scanned) = 2
  /\ pc = "running" /\ exitCode = -1

\* the program of the run that has just returned
LastProgram == Parse(runs[Len(runs)]).prog

\* the run that has just returned ended with an external command that was
\* not found or exited with a non-zero status
ExternalFailed ==
  /\ runs # <<>> /\ LastProgram # <<>> /\ todo = <<>>
  /\ LastProgram[Len(LastProgram)].kind = "cmd"
  /\ LastProgram[Len(LastProgram)].argv[1] \notin DOMAIN builtins
  /\ calls # <<>>
  /\ calls[Len(calls)].callee = "DefaultExecHandler"
  /\ calls[Len(calls)].ret # Nil

\* C9: in interactive mode, when the command run is an external command
\* that is not found or that exits with a non-zero status, the session
\* continues: the process does not exit and the loop prompts for the next
\* line.
C9_ExternalFailureContinues ==
  [][(pc = "ran" /\ mode = "Interactive" /\ ExternalFailed) =>
       (pc' = "scan" /\ exitCode' = -1 /\ stdout' = Append(stdout, prompt))]_vars

\* C10: explicit termination with status 0 ends the session with exit code
\* 0 in every mode, and no further line is read, parsed or run after it.
C10_ExitZeroEndsSession ==
  [][(pc = "ran" /\ exited /\ rexit = 0) =>
       /\ \/ pc' = "exited" /\ exitCode' = 0
          \/ pc' = "returned" /\ ret' = Nil
       /\ scanned' = scanned
       /\ runs' = runs]_vars

(* ------------------------------------------------------------------ *)
(* End of input, empty input, parse and open failures                  *)
(* ------------------------------------------------------------------ *)
\* C11: in interactive mode, when the input ends without a read error the
\* session returns success and the process exits with 0, whatever parse
\* errors and failed runs came before.
C11_EndOfInputIsSuccess ==
  /\ [][(mode = "Interactive" /\ pc = "scan" /\ pc' = "returned"
         /\ ioErr' = Nil) => ret' = Nil]_vars
  /\ [][(mode = "Interactive" /\ pc = "returned" /\ ioErr = Nil) =>
          (pc' = "exited" /\ exitCode' = 0 /\ stderr' = stderr)]_vars

\* a session with a parse error and a failed run ended at the end of the
\* input with exit code 0
C11_Witness ==
  /\ mode = "Interactive" /\ ioErr = Nil
  /\ stderr = <<"parse error: ", "runtime error: jq exited with code 5">>
  /\ pc = "exited" /\ exitCode = 0

\* C12: in piped-script mode with zero bytes of input the session returns
\* success (exit code 0) without parsing and without dispatching a command.
C12_EmptyPipeIsNoOp ==
  (mode = "PipedScript" /\ ioErr = Nil /\ acquired = << <<>> >>) =>
    /\ parses = <<>> /\ runs = <<>> /\ calls = <<>>
    /\ ret = Nil
    /\ pc \in {"returned", "exited"}
    /\ pc = "exited" => (exitCode = 0 /\ stderr = <<>>)

\* an empty pipe was read and the process ended with 0
C12_Witness ==
  /\ mode = "PipedScript" /\ ioErr = Nil /\ acquired = << <<>> >>
  /\ pc = "exited" /\ exitCode = 0

NonInteractive == {"PipedScript", "CommandString", "FileScript"}

\* C13: in piped-script, command-string and file-script mode every parse
\* failure, incomplete or invalid, is fatal: no command of the input is
\* dispatched, nothing more is acquired and the mode function returns an
\* error.
C13_ParseFailureIsFatal ==
  (mode \in NonInteractive /\ acquired # <<>>
   /\ Parse(acquired[1]).class # "ok") =>
    /\ runs = <<>> /\ calls = <<>>
    /\ Len(acquired) = 1 /\ parses = acquired
    /\ ret.kind = "error" /\ ret.msg = "parse error: "
    /\ pc \in {"returned", "exited"}
    /\ pc = "exited" => exitCode = 1

\* a command string with a valid command followed by an unclosed block
\* ended the process with 1 and nothing was dispatched
C13_Witness ==
  /\ mode = "CommandString"
  /\ acquired = << <<Cmd(<<"jq", ".">>), Open>> >>
  /\ calls = <<>>
  /\ pc = "exited" /\ exitCode = 1

\* C14: in command-string mode a program that succeeds gives exit code 0; a
\* builtin's ordinary failure gives exit code 1 through the error that
\* shell.Run returns and goshCmd prints, never through os.Exit in runCommand.
C14_CommandStringExitCodes ==
  /\ []((mode = "CommandString" /\ pc = "exited" /\ runs # <<>>) =>
          /\ runErr = Nil => (exitCode = 0 /\ ret = Nil /\ stderr = <<>>)
          /\ runErr.kind = "error" =>
               /\ exitCode = 1
               /\ ret.kind = "error"
               /\ ret.msg = "runtime error: " \o runErr.msg
               /\ stderr = <<"Error: " \o ret.msg>>)
  /\ [][(mode = "CommandString" /\ pc = "ran" /\ runErr.kind = "error") =>
          (pc' = "returned" /\ exitCode' = -1)]_vars

\* the command string "jq ." failed in the builtin and the process ended
\* with 1 after shell.Run returned the error
C14_Witness ==
  /\ mode = "CommandString"
  /\ runs = << <<Cmd(<<"jq", ".">>)>> >>
  /\ runErr.kind = "error" /\ ret.kind = "error"
  /\ pc = "exited" /\ exitCode = 1

\* messages shell.Run returns for a parse error or a failed run
OtherMessages ==
  {"parse error: "}
  \cup {"runtime error: " \o r.msg :
          r \in UNION {BuiltinOutcomes(builtins[n], a) :
                         n \in DOMAIN builtins, a \in Argvs}}

\* C15: in file-script mode, when the file cannot be opened nothing is
\* parsed, no command is dispatched, and the error returned is a file-open
\* error, different from every parse error and runtime error.
C15_OpenFailureIsDistinct ==
  (mode = "FileScript" /\ ioErr # Nil) =>
    /\ acquired = <<>> /\ parses = <<>> /\ runs = <<>> /\ calls = <<>>
    /\ ~fileOpen
    /\ ret.kind = "error"
    /\ ret.msg = "opening script file: " \o ioErr.msg
    /\ ret.msg \notin OtherMessages

\* the script could not be opened and the process ended with 1 after the
\* open error was printed
C15_Witness ==
  /\ mode = "FileScript" /\ ioErr # Nil
  /\ stderr = <<"Error: opening script file: no such file">>
  /\ pc = "exited" /\ exitCode = 1

(* ------------------------------------------------------------------ *)
(* Reporting of failures, release of the script file, output ceiling   *)
(* ------------------------------------------------------------------ *)
\* the run that has just returned failed without asking for termination:
\* a builtin failed, or the last command was an external command that was
\* not found or exited with a non-zero status
RunFailed == runErr.kind = "error" \/ ExternalFailed

\* C16: every failure other than explicit termination is written to the
\* error stream before the session proceeds: in interactive mode before the
\* next prompt, in the other modes before the process exits, then with exit
\* code 1.
C16_FailuresAreReported ==
  /\ [][(ReadsLine /\ Parse(Accumulated).class = "invalid") =>
          (Len(stderr') = Len(stderr) + 1 /\ pc' = "scan")]_vars
  /\ [][(pc = "ran" /\ RunFailed) =>
          IF mode = "Interactive"
            THEN Len(stderr') = Len(stderr) + 1 /\ pc' = "scan"
            ELSE pc' = "returned" /\ ret'.kind = "error"]_vars
  /\ [][(pc = "returned" /\ ret.kind = "error") =>
          (Len(stderr') = Len(stderr) + 1 /\ pc' = "exited"
           /\ exitCode' = 1)]_vars

\* C17: when a run ends in explicit termination the process exits with the
\* carried status only after the deferred releases have run: in file-script
\* mode the script file is closed when the process exits.
C17_FileClosedBeforeExit ==
  (pc = "exited" /\ runErr.kind = "exitStatus") =>
    (exitCode = runErr.status /\ ~fileOpen)

\* C18: an external command that writes more than the number the default
\* exec handler is built with (2 MiB) ends in a failure that is neither an
\* exit status of the process nor "command not found", and never in success.
C18_OutputCeilingIsAFailure ==
  (DispatchMiss /\ doutput > killTimeout) => dresult.kind = "error"

(* ------------------------------------------------------------------ *)
(* Interactive mode: buffer and prompts                                *)
(* ------------------------------------------------------------------ *)
\* the buffer and the texts run after feeding lines one by one to a loop
\* that keeps an incomplete text, drops an invalid one and runs and drops
\* a complete one
RECURSIVE Replay(_, _, _)
Replay(lines, buf, out) ==
  IF lines = <<>> THEN [buf |-> buf, runs |-> out]
  ELSE LET text == Append(buf, Head(lines))
           class == Parse(text).class
       IN IF class = "incomplete" THEN Replay(Tail(lines), text, out)
          ELSE IF class = "invalid" THEN Replay(Tail(lines), <<>>, out)
          ELSE Replay(Tail(lines), <<>>, Append(out, text))

\* C19: in interactive mode the buffer is empty after every run and after
\* every parse failure that is not "incomplete", and such a failure runs
\* nothing; so every line is part of at most one program run, and the text
\* of a parse never holds lines from before the last run or parse error.
C19_BufferIsResetAfterRunAndError ==
  /\ [](mode = "Interactive" =>
          /\ pc \in {"running", "ran"} => src = <<>>
          /\ src = Replay(scanned, <<>>, <<>>).buf
          /\ runs = Replay(scanned, <<>>, <<>>).runs
          /\ Len(parses) = Len(scanned)
          /\ \A k \in 1..Len(parses) :
               parses[k] = Append(Replay(SubSeq(scanned, 1, k - 1), <<>>, <<>>).buf,
                                  scanned[k]))
  /\ [][(ReadsLine /\ Parse(Accumulated).class = "invalid") =>
          (src' = <<>> /\ runs' = runs /\ calls' = calls /\ pc' = "scan")]_vars
  /\ [][(mode = "Interactive" /\ pc = "ran") => src' = <<>>]_vars

\* an opened block was dropped by a syntax error, and the command on the
\* next line was run on its own
C19_Witness ==
  /\ mode = "Interactive"
  /\ scanned = <<Open, Bad, Cmd(<<"jq", ".">>)>>
  /\ runs = << <<Cmd(<<"jq", ".">>)>> >>
  /\ pc = "ran"

\* C20: in interactive mode every read of a line is preceded by exactly one
\* prompt printed since the previous read: the primary prompt iff the buffer
\* is empty, the secondary prompt iff it holds an incomplete construct.
C20_OnePromptPerRead ==
  /\ [](mode = "Interactive" =>
          /\ pc = "entered" => stdout = <<>>
          /\ pc = "scan" =>
               /\ Len(stdout) = Len(scanned) + 1
               /\ stdout[Len(stdout)] = IF src = <<>> THEN "dim > " ELSE "> "
               /\ src # <<>> => Parse(src).class = "incomplete"
          /\ pc \in {"running", "ran"} => Len(stdout) = Len(scanned))
  /\ [][scanned' # scanned =>
          (pc = "scan" /\ Len(scanned') = Len(scanned) + 1)]_vars

\* the third read follows two continuation prompts
C20_Witness ==
  /\ mode = "Interactive" /\ pc = "scan"
  /\ scanned = <<Open, Cmd(<<"ls", "-la">>)>>
  /\ stdout = <<"dim > ", "> ", "> ">>

(* ------------------------------------------------------------------ *)
(* One command at a time, one dispatcher, a fixed registry             *)
(* ------------------------------------------------------------------ *)
\* the sides of the running pipeline whose call of the exec handler has
\* not returned yet
Dispatching == {i \in DOMAIN inflight : inflight[i].st = "called"}

\* C21: within a session command dispatches do not overlap (a dispatched
\* command has returned before the next one is dispatched), at most one
\* program runs at a time, and in interactive mode no line is read or parsed
\* while a run is in progress.
C21_DispatchesDoNotOverlap ==
  /\ [](Cardinality(Dispatching) <= 1)
  /\ [][runs' # runs => (pc # "running" /\ inflight = <<>>)]_vars
  /\ [][(scanned' # scanned \/ parses' # parses) =>
          (pc # "running" /\ inflight = <<>>)]_vars

\* the argument vectors the runner has handed to the exec handler and not
\* got back: the command it is at, or the called sides of its pipeline
Dispatched ==
  IF inflight # <<>> THEN {inflight[i].argv : i \in Dispatching}
  ELSE IF todo # <<>> THEN {Head(todo).argv} ELSE {}

\* C22: in all four modes programs run through the one runner with the one
\* exec handler: every call of a builtin or of the process executor is made
\* by the dispatcher for a command the runner is executing, and the process
\* executor is called only after a registry miss on a non-empty argv.
C22_OnlyThroughDispatcher ==
  /\ [](\A i \in 1..Len(calls) :
          /\ calls[i].ctx = ctxRun
          /\ calls[i].callee = "DefaultExecHandler" =>
               (calls[i].args # <<>> /\ calls[i].args[1] \notin DOMAIN builtins)
          /\ calls[i].callee # "DefaultExecHandler" =>
               \E n \in DOMAIN builtins : calls[i].callee = builtins[n])
  /\ [][runs' # runs => (mode \in Modes /\ pc' = "running")]_vars
  /\ [][calls' # calls =>
          /\ pc = "running" /\ mode \in Modes
          /\ Len(calls') = Len(calls) + 1
          /\ SubSeq(calls', 1, Len(calls)) = calls
          /\ \E a \in Dispatched :
               LET k == calls'[Len(calls')]
               IN IF a[1] \in DOMAIN builtins
                    THEN k.callee = builtins[a[1]] /\ k.args = Tail(a)
                    ELSE k.callee = "DefaultExecHandler" /\ k.args = a]_vars

\* a script file ran an external command and then a builtin, each through
\* the dispatcher
C22_Witness ==
  /\ mode = "FileScript" /\ pc = "ran"
  /\ runs = << <<Cmd(<<"ls", "-la">>), Cmd(<<"jq", ".">>)>> >>
  /\ Len(calls) = 2
  /\ calls[1].callee = "DefaultExecHandler" /\ calls[1].args = <<"ls", "-la">>
  /\ calls[2].callee = "runJq" /\ calls[2].args = <<".">>

\* C23: the registry is never modified after process start: no dispatch,
\* for a hit, a miss or an empty argv, adds, removes or rebinds an entry.
C23_RegistryIsReadOnly ==
  /\ [](registry = builtins)
  /\ [][registry' = registry]_vars

\* a miss was dispatched and the registry is what it was at process start
C23_Witness ==
  /\ DispatchMiss /\ dargv = <<"nosuch">>
  /\ dcalls # <<>> /\ dcalls[1].callee = "DefaultExecHandler"
  /\ registry = builtins

(* ------------------------------------------------------------------ *)
(* End of input inside an incomplete construct                         *)
(* ------------------------------------------------------------------ *)
\* the interactive input ended, without a read error, while the buffer held
\* lines
EndedIncomplete ==
  /\ mode = "Interactive" /\ pc \in {"returned", "exited"}
  /\ ioErr = Nil /\ src # <<>>

\* C24: in interactive mode, when the input ends while the buffer holds an
\* incomplete construct, the buffered lines are never run, nothing is
\* written to the error stream about them, and the session returns success
\* (exit code 0).
C24_IncompleteAtEndIsDropped ==
  /\ [][(mode = "Interactive" /\ pc = "scan" /\ src # <<>>
         /\ pc' = "returned" /\ ioErr' = Nil) =>
          (ret' = Nil /\ runs' = runs /\ calls' = calls /\ parses' = parses
           /\ stderr' = stderr)]_vars
  /\ [](EndedIncomplete =>
          /\ Parse(src).class = "incomplete"
          /\ src = Replay(scanned, <<>>, <<>>).buf
          /\ runs = Replay(scanned, <<>>, <<>>).runs
          /\ ret = Nil
          /\ pc = "exited" => exitCode = 0)
  /\ [][EndedIncomplete =>
          (runs' = runs /\ calls' = calls /\ stderr' = stderr
           /\ pc' = "exited" /\ exitCode' = 0)]_vars

\* after one command had run, a block was opened and never closed: the
\* session ended with 0, one run, and nothing on the error stream
C24_Witness ==
  /\ mode = "Interactive" /\ ioErr = Nil
  /\ scanned = <<Cmd(<<"ls", "-la">>), Open, Cmd(<<"jq", ".">>)>>
  /\ src = <<Open, Cmd(<<"jq", ".">>)>>
  /\ runs = << <<Cmd(<<"ls", "-la">>)>> >>
  /\ stderr = <<>>
  /\ pc = "exited" /\ exitCode = 0

(* ------------------------------------------------------------------ *)
(* os.Args across the builtins that swap it                            *)
(* ------------------------------------------------------------------ *)
\* goroutine i runs its wrapped CLI in this step
RunsCli(i) == g[i].pc = "set" /\ g'[i].pc = "ran"

\* goroutine i returns from its builtin in this step
Returns(i) == g[i].pc = "ran" /\ g'[i].pc = "done"

\* the argument vector the builtin of goroutine i means its CLI to find
OwnArgs(i) == <<toolName(g[i].fn)>> \o g[i].args

\* C25: a call of runJq, runYq, runKubectl or runDatabricks that no other
\* such call overlaps runs its CLI with os.Args equal to the tool name
\* followed by the builtin's arguments, and on return, whether the CLI
\* succeeded or failed, os.Args is what it was at entry; so it is across
\* any sequence of such calls.
C25_ArgsRestoredOnReturn ==
  /\ [][\A i \in Goroutines :
          (RunsCli(i) /\ g[i].alone) => osArgs = OwnArgs(i)]_vars
  /\ [][\A i \in Goroutines :
          (Returns(i) /\ g[i].alone) => osArgs' = g[i].entry]_vars

\* the second of two calls in a row, a jq that failed, is about to return
\* and was the only call in progress from its entry on
C25_Witness ==
  /\ g[1].pc = "ran" /\ g[1].fn = "runJq" /\ g[1].n = 2 /\ g[1].alone
  /\ g[1].result # Nil
  /\ osArgs = <<"gojq", ".">>
  /\ g[1].entry = <<"dimutils", "shell">>
  /\ g[2].pc = "done"

\* C26: when two calls of argv-swapping builtins overlap, under every
\* interleaving each wrapped CLI runs with its own argument vector in
\* os.Args, and once both have returned os.Args is what it was before
\* either began.
C26_OverlapKeepsArgs ==
  /\ [][\A i \in Goroutines : RunsCli(i) => osArgs = OwnArgs(i)]_vars
  /\ []((\A i \in Goroutines : ~Active(g[i])) =>
          osArgs = <<"dimutils", "shell">> \o args)

(* ------------------------------------------------------------------ *)
(* The names the registry answers to                                   *)
(* ------------------------------------------------------------------ *)
\* command words that name jq in another case or through a directory
NearMisses == {"JQ", "/usr/bin/jq", "./jq"}

\* C27: the registry is looked up with the whole of argv[0], exactly and
\* case-sensitively: a command word that differs from a builtin name in
\* case, or names the tool through a path prefix, is a miss and goes to the
\* process executor; only the bare registered names are shadowed.
C27_LookupIsExact ==
  (dpc = "done" /\ dargv # <<>>) =>
    /\ Len(dcalls) = 1
    /\ (dcalls[1].callee # "DefaultExecHandler") <=> (dargv[1] \in DOMAIN builtins)
    /\ dargv[1] \in NearMisses =>
         dcalls = <<Call("DefaultExecHandler", dctx, dargv, dresult)>>

\* "/usr/bin/jq jq" went to the process executor and ran the installed jq
C27_Witness ==
  /\ dpc = "done" /\ dargv = <<"/usr/bin/jq", "jq">>
  /\ "jq" \in path
  /\ dcalls[1].callee = "DefaultExecHandler" /\ dcalls[1].args = dargv
  /\ dresult = Nil

(* ------------------------------------------------------------------ *)
(* The exit code of jq, by entry point                                 *)
(* ------------------------------------------------------------------ *)
\* C28: a failure of gojq with code N is handled differently by the two
\* entry points: the top-level jq subcommand exits the process with N; the
\* shell builtin jq turns it into an ordinary failure, so a non-interactive
\* session exits with 1, not N, and an interactive session continues.
C28_JqExitCodeByEntryPoint ==
  /\ [][(pc = "start" /\ tool = "jq") =>
          (pc' = "exited" /\ cliCode' \in CliCodes /\ exitCode' = cliCode'
           /\ stderr' = stderr)]_vars
  /\ [][\A n \in CliCodes \ {0} :
          (pc = "ran" /\ runErr = Err("jq exited with code " \o ToString(n))) =>
            IF mode = "Interactive"
              THEN pc' = "scan" /\ exitCode' = -1
              ELSE pc' = "returned" /\ exitCode' = -1
                   /\ ret' = Err("runtime error: " \o runErr.msg)]_vars
  /\ [](\A n \in CliCodes \ {0} :
          (pc = "exited" /\ mode \in NonInteractive
           /\ runErr = Err("jq exited with code " \o ToString(n))) =>
            (exitCode = 1 /\ exitCode # n))

\* the jq subcommand ended the process with the code gojq returned
C28_Witness ==
  /\ tool = "jq" /\ pc = "exited"
  /\ cliCode = 5 /\ exitCode = 5
  /\ mode = "none" /\ stderr = <<>>

(* ------------------------------------------------------------------ *)
(* The registry and the subcommands of the binary                      *)
(* ------------------------------------------------------------------ *)
\* C29: every name of the registry is a top-level subcommand of the binary,
\* but not conversely: apigen, datagen, config and shell are subcommands
\* that the registry lacks, so inside the shell these four command words go
\* to the process executor, not to an in-process implementation.
C29_RegistryWithinSubcommands ==
  /\ DOMAIN registry \subseteq Subcommands
  /\ Subcommands \ DOMAIN registry = {"apigen", "datagen", "config", "shell"}
  /\ (dpc = "done" /\ dargv # <<>>
      /\ dargv[1] \in {"apigen", "datagen", "config", "shell"}) =>
       dcalls = <<Call("DefaultExecHandler", dctx, dargv, dresult)>>

\* "shell" was dispatched inside the shell and went to the process
\* executor, which found no such executable
C29_Witness ==
  /\ dpc = "done" /\ dargv = <<"shell">>
  /\ dcalls[1].callee = "DefaultExecHandler"
  /\ dresult = [kind |-> "exitStatus", msg |-> "", status |-> 127]

(* ------------------------------------------------------------------ *)
(* The order in which make builds                                      *)
(* ------------------------------------------------------------------ *)
\* position of the first target of a that fails to build, 0 if none does
FirstFailing(a, F) ==
  IF \E i \in 1..Len(a) : a[i] \in F
    THEN CHOOSE i \in 1..Len(a) :
           a[i] \in F /\ \A j \in 1..(i - 1) : a[j] \notin F
    ELSE 0

\* C30: the make builtin builds the given targets in argument order and
\* stops at the first target whose build fails, returning an error that
\* names it; targets after it are never built; with no targets only the
\* default target is built; if the make command cannot be created nothing
\* is built.
C30_MakeStopsAtFirstFailure ==
  /\ [](mk.pc # "idle" =>
          /\ mk.newErr => (mk.built = <<>> /\ mk.result.kind = "error")
          /\ (~mk.newErr /\ mk.args = <<>>) =>
               (mk.built = <<>> \/ mk.built = <<BuildDefault>>)
          /\ (~mk.newErr /\ mk.args # <<>>) =>
               /\ Len(mk.built) <= Len(mk.args)
               /\ mk.built = SubSeq(mk.args, 1, Len(mk.built))
               /\ FirstFailing(mk.args, mk.failing) # 0 =>
                    Len(mk.built) <= FirstFailing(mk.args, mk.failing))
  /\ [](mk.pc = "done" /\ ~mk.newErr =>
          IF mk.args = <<>> THEN mk.built = <<BuildDefault>>
          ELSE LET k == FirstFailing(mk.args, mk.failing)
               IN IF k = 0
                    THEN mk.built = mk.args /\ mk.result = Nil
                    ELSE /\ mk.built = SubSeq(mk.args, 1, k)
                         /\ mk.result = Err("error building target '"
                                            \o mk.args[k] \o "': failed"))

\* "make test all" with a failing test: test was tried, all never was
C30_Witness ==
  /\ mk.pc = "done" /\ mk.args = <<"test", "all">> /\ mk.failing = {"test"}
  /\ mk.built = <<"test">>
  /\ mk.result = Err("error building target 'test': failed")

====
